---- MODULE Spec2Model ----
(***************************************************************************)
(* Model of StTstreamsound.py: the MicrophoneStream capture object (device *)
(* callback, teardown, chunk generator), the session runner main() and the *)
(* transcript renderer listen_print_loop.                                  *)
(*                                                                         *)
(* Threads: the audio subsystem's callback thread (FillBuffer), the        *)
(* request-consumer thread that iterates the generator (Gen* actions) and  *)
(* the main thread (Enter*, MainRecognize, BodyEnd, Exit*, MainDone).      *)
(***************************************************************************)
EXTENDS Integers, Sequences, FiniteSets, TLC

\* ---------------------------------------------------------------- bounds
\* number of audio frames the device delivers in one explored session
MaxChunks == 3
\* longest transcript the recognition service returns
MaxLen == 5
\* length of the part of a transcript whose characters are chosen freely
MaxHead == 3

\* ------------------------------------------------------- program constants
\* queue.Queue() is built without a maxsize: 0 means "no limit"
BuffMaxsize == 0

VARIABLES
    buff,        \* self._buff: FIFO of items, oldest first
    closed,      \* self.closed
    stream,      \* self._audio_stream: "none" | "active" | "stopped" | "closed"
    iface,       \* self._audio_interface: "none" | "live" | "terminated"
    mainpc,      \* position of main(): "start" | "entered" | "body" | "render" | "exit" | "done"
    exitpc,      \* position inside __exit__: 0 = not entered, k = before step k
    outcome,     \* how the body of the with-block ended
    result,      \* what main() ended with
    genCreated,  \* stream.generator() was called and handed to the client
    genpc,       \* generator position: "idle" | "guard" | "get" | "drain" | "yield" | "done"
    data,        \* the generator's local list `data`
    emitted,     \* blocks yielded so far, in order
    markerRead,  \* the generator obtained None from the buffer
    endedBy,     \* "none" | "flag" | "get_marker" | "drain_marker"
    puts,        \* history: every item ever put on the buffer, in order
    cbReturn,    \* last value returned by _fill_buffer
    devCalls,    \* history: how often each device operation was invoked
    teardowns,   \* number of __exit__ invocations
    exitRaised,  \* an __exit__ invocation ended with an exception
    num_chars_printed, \* listen_print_loop's counter
    rpc,         \* listen_print_loop position: "loop" | "done"
    out,         \* characters of the last console write of the renderer
    lastResp,    \* the response the renderer processed last
    line,        \* console: characters on the current terminal line
    col          \* console: cursor column (0 = start of the line)

audioVars == <<buff, closed, stream, iface, mainpc, exitpc, outcome, result,
               genCreated, genpc, data, emitted, markerRead, endedBy, puts,
               cbReturn, devCalls, teardowns, exitRaised>>
renderVars == <<num_chars_printed, rpc, out, lastResp, line, col>>
vars == <<buff, closed, stream, iface, mainpc, exitpc, outcome, result,
          genCreated, genpc, data, emitted, markerRead, endedBy, puts,
          cbReturn, devCalls, teardowns, exitRaised,
          num_chars_printed, rpc, out, lastResp, line, col>>

\* ------------------------------------------------------------ buffer items
\* an audio block as delivered to the callback
Chunk(b) == [none |-> FALSE, bytes |-> b]
\* the end-of-stream marker (Python None)
None == [none |-> TRUE, bytes |-> <<>>]

IsChunk(x) == ~x.none

\* chunks put so far, in order (the marker left out)
Enqueued == SelectSeq(puts, IsChunk)

RECURSIVE JoinReversed(_)
\* a join that concatenates the blocks last to first
JoinReversed(l) == IF l = <<>> THEN <<>> ELSE JoinReversed(Tail(l)) \o Head(l)

RECURSIVE Join(_)
\* b''.join(list): concatenation of the byte blocks of a list
Join(l) == IF l = <<>> THEN <<>> ELSE Head(l) \o Join(Tail(l))

RECURSIVE JoinItems(_)
\* concatenation of the bytes of a sequence of chunk items
JoinItems(s) == IF s = <<>> THEN <<>> ELSE Head(s).bytes \o JoinItems(Tail(s))

\* a buffer built as a bounded queue of one item
PutBlocksBounded(q) == Len(q) >= 1

\* queue.Queue.put blocks while a bounded queue is full
PutBlocks(q) == BuffMaxsize > 0 /\ Len(q) >= BuffMaxsize

Init ==
    /\ buff = <<>>
    /\ closed = TRUE
    /\ stream = "none"
    /\ iface = "none"
    /\ mainpc = "start"
    /\ exitpc = 0
    /\ outcome = "none"
    /\ result = "none"
    /\ genCreated = FALSE
    /\ genpc = "idle"
    /\ data = <<>>
    /\ emitted = <<>>
    /\ markerRead = FALSE
    /\ endedBy = "none"
    /\ puts = <<>>
    /\ cbReturn = "none"
    /\ devCalls = [open |-> 0, stop |-> 0, close |-> 0, terminate |-> 0]
    /\ teardowns = 0
    /\ exitRaised = FALSE
    /\ num_chars_printed = 0
    /\ rpc = "loop"
    /\ out = <<>>
    /\ lastResp = [kind |-> "none", transcript |-> <<>>, is_final |-> FALSE]
    /\ line = <<>>
    /\ col = 0

\* ------------------------------------------------------ capture callback
\* _fill_buffer(in_data, ...): one put of the received block, then the
\* continue signal.  The device invokes it only while the stream is active;
\* the k-th delivered frame carries the bytes <<k>>.
FillBuffer ==
    /\ stream = "active"
    /\ Len(Enqueued) < MaxChunks
    /\ ~PutBlocks(buff)
    /\ LET in_data == <<Len(Enqueued) + 1>> IN
        /\ buff' = Append(buff, Chunk(in_data))
        /\ puts' = Append(puts, Chunk(in_data))
    /\ cbReturn' = "paContinue"
    /\ UNCHANGED <<closed, stream, iface, mainpc, exitpc, outcome, result,
                   genCreated, genpc, data, emitted, markerRead, endedBy,
                   devCalls, teardowns, exitRaised>>
    /\ UNCHANGED renderVars

\* ------------------------------------------------------------ __enter__
\* an __enter__ that tries the open again after a failure
EnterOpenRetries ==
    /\ mainpc = "start"
    /\ iface' = "live"
    /\ devCalls.open < 2
    /\ devCalls' = [devCalls EXCEPT !.open = @ + 1]
    /\ \E ok \in BOOLEAN :
        IF ok
        THEN /\ stream' = "active"
             /\ mainpc' = "entered"
        ELSE /\ UNCHANGED <<mainpc, stream>>
    /\ UNCHANGED <<buff, closed, exitpc, outcome, result, genCreated, genpc,
                   data, emitted, markerRead, endedBy, puts, cbReturn,
                   teardowns, exitRaised>>
    /\ UNCHANGED renderVars

\* PyAudio() and open(): the device either opens (and starts delivering
\* frames at once) or the open raises and the with-statement is never entered
EnterOpen ==
    /\ mainpc = "start"
    /\ iface' = "live"
    /\ devCalls' = [devCalls EXCEPT !.open = @ + 1]
    /\ \E ok \in BOOLEAN :
        IF ok
        THEN /\ stream' = "active"
             /\ mainpc' = "entered"
             /\ UNCHANGED result
        ELSE /\ mainpc' = "done"
             /\ result' = "error"
             /\ UNCHANGED stream
    /\ UNCHANGED <<buff, closed, exitpc, outcome, genCreated, genpc, data,
                   emitted, markerRead, endedBy, puts, cbReturn,
                   teardowns, exitRaised>>
    /\ UNCHANGED renderVars

\* self.closed = False; return self
EnterSetOpen ==
    /\ mainpc = "entered"
    /\ closed' = FALSE
    /\ mainpc' = "body"
    /\ UNCHANGED <<buff, stream, iface, exitpc, outcome, result, genCreated,
                   genpc, data, emitted, markerRead, endedBy, puts, cbReturn,
                   devCalls, teardowns, exitRaised>>
    /\ UNCHANGED renderVars

\* ------------------------------------------------------------------ main
\* audio_generator = stream.generator(); requests = (...);
\* responses = client.streaming_recognize(streaming_config, requests)
MainRecognize ==
    /\ mainpc = "body"
    /\ genCreated' = TRUE
    /\ mainpc' = "render"
    /\ UNCHANGED <<buff, closed, stream, iface, exitpc, outcome, result,
                   genpc, data, emitted, markerRead, endedBy, puts, cbReturn,
                   devCalls, teardowns, exitRaised>>
    /\ UNCHANGED renderVars

\* ways the body of the with-block can end
Outcomes == {"keyword", "exhausted", "error"}

\* a with-block that runs its teardown only when the body ends normally
BodyEndNoFinally(o) ==
    /\ \/ mainpc = "body" /\ o = "error"
       \/ mainpc = "render"
    /\ outcome' = o
    /\ IF o = "error"
       THEN /\ mainpc' = "done"
            /\ result' = "error"
            /\ UNCHANGED <<exitpc, teardowns>>
       ELSE /\ mainpc' = "exit"
            /\ exitpc' = 1
            /\ teardowns' = teardowns + 1
            /\ UNCHANGED result
    /\ UNCHANGED <<buff, closed, stream, iface, genCreated, genpc, data,
                   emitted, markerRead, endedBy, puts, cbReturn, devCalls,
                   exitRaised>>
    /\ UNCHANGED renderVars

\* the body of `with MicrophoneStream(...) as stream:` ends: the recognition
\* call raises (o = "error" before the render loop), or listen_print_loop
\* returns on the keyword, returns because the responses ended, or an error
\* is raised inside it.  The with-statement then calls __exit__ in every case.
BodyEnd(o) ==
    /\ \/ mainpc = "body" /\ o = "error"
       \/ mainpc = "render"
    /\ outcome' = o
    /\ mainpc' = "exit"
    /\ exitpc' = 1
    /\ teardowns' = teardowns + 1
    /\ UNCHANGED <<buff, closed, stream, iface, result, genCreated, genpc,
                   data, emitted, markerRead, endedBy, puts, cbReturn,
                   devCalls, exitRaised>>
    /\ UNCHANGED renderVars

\* ------------------------------------------------------------- __exit__
\* teardown that releases the audio interface before it enqueues the marker
ExitStepsTerminateFirst == <<"stop_stream", "close", "set_closed", "terminate", "put_marker">>

\* teardown that enqueues the marker before it stops the device stream
ExitStepsMarkerFirst == <<"put_marker", "stop_stream", "close", "set_closed", "terminate">>

\* teardown that sets the closed flag only after it enqueued the marker
ExitStepsClosedLate == <<"stop_stream", "close", "put_marker", "set_closed", "terminate">>

\* teardown that never enqueues the marker
ExitStepsNoMarker == <<"stop_stream", "close", "set_closed", "terminate">>

\* the statements of __exit__ in program order
ExitSteps == <<"stop_stream", "close", "set_closed", "put_marker", "terminate">>

ExitDone == Len(ExitSteps) + 1

ExitAt(step) == exitpc \in 1..Len(ExitSteps) /\ ExitSteps[exitpc] = step

\* a device operation invoked on a handle that is already closed or released
\* either raises inside the audio library (the teardown is abandoned) or is
\* tolerated by it
LibraryCall(op, alreadyDone) ==
    /\ devCalls' = [devCalls EXCEPT ![op] = @ + 1]
    /\ IF alreadyDone
       THEN \E raises \in BOOLEAN :
              IF raises
              THEN exitRaised' = TRUE /\ exitpc' = ExitDone
              ELSE exitpc' = exitpc + 1 /\ UNCHANGED exitRaised
       ELSE exitpc' = exitpc + 1 /\ UNCHANGED exitRaised

\* self._audio_stream.stop_stream(): returns once no callback is running
ExitStopStream ==
    /\ ExitAt("stop_stream")
    /\ LibraryCall("stop", stream = "closed")
    /\ stream' = IF stream = "active" THEN "stopped" ELSE stream
    /\ UNCHANGED <<buff, closed, iface, mainpc, outcome, result, genCreated,
                   genpc, data, emitted, markerRead, endedBy, puts, cbReturn,
                   teardowns>>
    /\ UNCHANGED renderVars

\* self._audio_stream.close()
ExitClose ==
    /\ ExitAt("close")
    /\ LibraryCall("close", stream = "closed")
    /\ stream' = "closed"
    /\ UNCHANGED <<buff, closed, iface, mainpc, outcome, result, genCreated,
                   genpc, data, emitted, markerRead, endedBy, puts, cbReturn,
                   teardowns>>
    /\ UNCHANGED renderVars

\* self.closed = True
ExitSetClosed ==
    /\ ExitAt("set_closed")
    /\ closed' = TRUE
    /\ exitpc' = exitpc + 1
    /\ UNCHANGED <<buff, stream, iface, mainpc, outcome, result, genCreated,
                   genpc, data, emitted, markerRead, endedBy, puts, cbReturn,
                   devCalls, teardowns, exitRaised>>
    /\ UNCHANGED renderVars

\* self._buff.put(None)
ExitPutMarker ==
    /\ ExitAt("put_marker")
    /\ ~PutBlocks(buff)
    /\ buff' = Append(buff, None)
    /\ puts' = Append(puts, None)
    /\ exitpc' = exitpc + 1
    /\ UNCHANGED <<closed, stream, iface, mainpc, outcome, result, genCreated,
                   genpc, data, emitted, markerRead, endedBy, cbReturn,
                   devCalls, teardowns, exitRaised>>
    /\ UNCHANGED renderVars

\* self._audio_interface.terminate()
ExitTerminate ==
    /\ ExitAt("terminate")
    /\ LibraryCall("terminate", iface = "terminated")
    /\ iface' = "terminated"
    /\ UNCHANGED <<buff, closed, stream, mainpc, outcome, result, genCreated,
                   genpc, data, emitted, markerRead, endedBy, puts, cbReturn,
                   teardowns>>
    /\ UNCHANGED renderVars

\* __exit__ returned None, so the with-statement re-raises a pending error;
\* main() ends
MainDone ==
    /\ mainpc = "exit"
    /\ exitpc = ExitDone
    /\ mainpc' = "done"
    /\ result' = IF outcome = "error" THEN "error" ELSE "ok"
    /\ UNCHANGED <<buff, closed, stream, iface, exitpc, outcome, genCreated,
                   genpc, data, emitted, markerRead, endedBy, puts, cbReturn,
                   devCalls, teardowns, exitRaised>>
    /\ UNCHANGED renderVars

\* a caller invokes __exit__ again on the capture object after the session
Reexit ==
    /\ mainpc = "done"
    /\ exitpc = ExitDone
    /\ teardowns = 1
    /\ exitpc' = 1
    /\ teardowns' = 2
    /\ UNCHANGED <<buff, closed, stream, iface, mainpc, outcome, result,
                   genCreated, genpc, data, emitted, markerRead, endedBy,
                   puts, cbReturn, devCalls, exitRaised>>
    /\ UNCHANGED renderVars

\* ------------------------------------------------------------- generator
\* the consumer thread asks the generator object for its first element
GenStart ==
    /\ genCreated
    /\ genpc = "idle"
    /\ genpc' = "guard"
    /\ UNCHANGED <<buff, closed, stream, iface, mainpc, exitpc, outcome,
                   result, genCreated, data, emitted, markerRead, endedBy,
                   puts, cbReturn, devCalls, teardowns, exitRaised>>
    /\ UNCHANGED renderVars

\* a loop guard that ignores the closed flag
GenGuardAlways ==
    /\ genpc = "guard"
    /\ genpc' = "get"
    /\ UNCHANGED <<buff, closed, stream, iface, mainpc, exitpc, outcome,
                   result, genCreated, data, emitted, markerRead, endedBy,
                   puts, cbReturn, devCalls, teardowns, exitRaised>>
    /\ UNCHANGED renderVars

\* while not self.closed:
GenGuard ==
    /\ genpc = "guard"
    /\ IF closed
       THEN genpc' = "done" /\ endedBy' = "flag"
       ELSE genpc' = "get" /\ UNCHANGED endedBy
    /\ UNCHANGED <<buff, closed, stream, iface, mainpc, exitpc, outcome,
                   result, genCreated, data, emitted, markerRead, puts,
                   cbReturn, devCalls, teardowns, exitRaised>>
    /\ UNCHANGED renderVars

\* chunk = self._buff.get(); if chunk is None: return; data = [chunk]
GenGet ==
    /\ genpc = "get"
    /\ buff # <<>>
    /\ buff' = Tail(buff)
    /\ IF Head(buff).none
       THEN /\ genpc' = "done"
            /\ markerRead' = TRUE
            /\ endedBy' = "get_marker"
            /\ UNCHANGED data
       ELSE /\ genpc' = "drain"
            /\ data' = <<Head(buff).bytes>>
            /\ UNCHANGED <<markerRead, endedBy>>
    /\ UNCHANGED <<closed, stream, iface, mainpc, exitpc, outcome, result,
                   genCreated, emitted, puts, cbReturn, devCalls, teardowns,
                   exitRaised>>
    /\ UNCHANGED renderVars

\* a drain loop that skips the marker instead of returning
DrainMarkerIgnored ==
    /\ genpc' = "drain"
    /\ markerRead' = TRUE
    /\ UNCHANGED <<endedBy, data, emitted>>

\* the drain loop's `if chunk is None: return`: the generator ends and the
\* local list `data` is not yielded
DrainMarker ==
    /\ genpc' = "done"
    /\ markerRead' = TRUE
    /\ endedBy' = "drain_marker"
    /\ UNCHANGED <<data, emitted>>

\* a drain loop that stops collecting after two chunks
DrainStopsCapped == buff = <<>> \/ Len(data) >= 2

\* the non-blocking get raises queue.Empty: the drain loop breaks
DrainStops == buff = <<>>

\* one pass of the inner `while True:` loop: a non-blocking get that either
\* raises queue.Empty (break, then `yield b''.join(data)`), returns the
\* marker, or returns a chunk that is appended to data
GenDrain ==
    /\ genpc = "drain"
    /\ IF DrainStops
       THEN /\ emitted' = Append(emitted, Join(data))
            /\ genpc' = "yield"
            /\ UNCHANGED <<buff, data, markerRead, endedBy>>
       ELSE /\ buff' = Tail(buff)
            /\ IF Head(buff).none
               THEN DrainMarker
               ELSE /\ data' = Append(data, Head(buff).bytes)
                    /\ UNCHANGED <<genpc, emitted, markerRead, endedBy>>
    /\ UNCHANGED <<closed, stream, iface, mainpc, exitpc, outcome, result,
                   genCreated, puts, cbReturn, devCalls, teardowns,
                   exitRaised>>
    /\ UNCHANGED renderVars

\* the consumer asks for the next element: the generator resumes after the
\* yield and goes back to the loop guard
GenResume ==
    /\ genpc = "yield"
    /\ genpc' = "guard"
    /\ UNCHANGED <<buff, closed, stream, iface, mainpc, exitpc, outcome,
                   result, genCreated, data, emitted, markerRead, endedBy,
                   puts, cbReturn, devCalls, teardowns, exitRaised>>
    /\ UNCHANGED renderVars

\* a caller obtains stream.generator() from a capture object that is not open
\* (before __enter__ has set closed = False, or after teardown)
GenCreateDirect ==
    /\ ~genCreated
    /\ closed
    /\ genCreated' = TRUE
    /\ UNCHANGED <<buff, closed, stream, iface, mainpc, exitpc, outcome,
                   result, genpc, data, emitted, markerRead, endedBy, puts,
                   cbReturn, devCalls, teardowns, exitRaised>>
    /\ UNCHANGED renderVars

GenNext == GenStart \/ GenGuard \/ GenGet \/ GenDrain \/ GenResume

ExitNext ==
    ExitStopStream \/ ExitClose \/ ExitSetClosed \/ ExitPutMarker \/ ExitTerminate

\* ----------------------------------------------------- listen_print_loop
\* characters a transcript is made of: characters of the exit keywords and a
\* blank (one string stands for one character)
Alphabet == {"SHUU", "RYOU", " "}

RECURSIVE StringsUpTo(_)
\* all character sequences of length at most n
StringsUpTo(n) ==
    IF n = 0 THEN {<<>>}
    ELSE LET shorter == StringsUpTo(n - 1) IN
         shorter \cup {Append(t, c) : t \in {u \in shorter : Len(u) = n - 1}, c \in Alphabet}

\* k copies of an ordinary word character
Filler(k) == IF k <= 0 THEN <<>> ELSE [i \in 1..k |-> "a"]

\* transcripts the service returns: any characters of the alphabet in the
\* first MaxHead positions, ordinary word characters up to length MaxLen
Transcripts ==
    StringsUpTo(MaxHead) \cup
    {h \o Filler(k) : h \in {u \in StringsUpTo(MaxHead) : Len(u) = MaxHead},
                      k \in 1..(MaxLen - MaxHead)}

\* response groups the recognition service can send
Responses ==
    {[kind |-> k, transcript |-> <<>>, is_final |-> FALSE] : k \in {"no_results", "no_alternatives"}}
    \cup {[kind |-> "result", transcript |-> t, is_final |-> f] : t \in Transcripts, f \in BOOLEAN}

\* Python's ' ' * k: k blanks, the empty string for k <= 0
Spaces(k) == IF k <= 0 THEN <<>> ELSE [i \in 1..k |-> " "]

\* no padding at all
OverwriteCharsNone(n, t) == <<>>

\* padding that is one blank short
OverwriteCharsShort(n, t) == Spaces(n - Len(t) - 1)

\* overwrite_chars = ' ' * (num_chars_printed - len(transcript))
OverwriteChars(n, t) == Spaces(n - Len(t))

\* the alternatives of the pattern \b(...)\b : the two exit keywords
Keywords == {<<"SHUU", "wa", "ri">>, <<"SHUU", "RYOU">>}

\* \w of the pattern: every character of the alphabet but the blank
IsWordChar(c) == c # " "

\* \b at the gap before position i of t (i in 1..Len(t)+1)
WordBoundary(t, i) ==
    LET before == i > 1 /\ IsWordChar(t[i - 1])
        after  == i <= Len(t) /\ IsWordChar(t[i])
    IN before # after

\* re.search(r'\b(keyword|keyword)\b', transcript, re.I)
KeywordMatch(t) ==
    \E k \in Keywords : \E i \in 1..Len(t) :
        /\ i + Len(k) - 1 <= Len(t)
        /\ SubSeq(t, i, i + Len(k) - 1) = k
        /\ WordBoundary(t, i)
        /\ WordBoundary(t, i + Len(k))

\* print('Exiting..')
ExitNotice == <<"E", "x", "i", "t", "i", "n", "g", ".", ".", "\n">>

RECURSIVE TermWrite(_, _)
\* sys.stdout.write / print on a terminal: a character overwrites the cell
\* under the cursor, '\r' moves the cursor to column 0 of the same line,
\* '\n' completes the line and starts an empty one.  term.lines collects the
\* lines completed by the write.
TermWrite(term, chars) ==
    IF chars = <<>> THEN term
    ELSE LET c == Head(chars)
             next ==
                 IF c = "\r" THEN [term EXCEPT !.col = 0]
                 ELSE IF c = "\n"
                      THEN [line |-> <<>>, col |-> 0,
                            lines |-> Append(term.lines, term.line)]
                      ELSE [term EXCEPT
                              !.line = IF term.col < Len(term.line)
                                       THEN [term.line EXCEPT ![term.col + 1] = c]
                                       ELSE Append(term.line, c),
                              !.col = term.col + 1]
         IN TermWrite(next, Tail(chars))

\* the console before a write
Term == [line |-> line, col |-> col, lines |-> <<>>]

\* a skip that also clears the counter
RenderSkipResets ==
    /\ out' = <<>>
    /\ num_chars_printed' = 0
    /\ UNCHANGED rpc

\* `continue` on a response without results or without alternatives
RenderSkip ==
    /\ out' = <<>>
    /\ UNCHANGED <<num_chars_printed, rpc>>

\* an interim branch that also tests the exit keyword
RenderInterimChecksKeyword(transcript, overwrite_chars) ==
    /\ out' = transcript \o overwrite_chars \o <<"\r">>
    /\ num_chars_printed' = Len(transcript)
    /\ rpc' = IF KeywordMatch(transcript) THEN "done" ELSE rpc

\* `if not result.is_final:` branch: write with a carriage return, remember
\* the length
RenderInterim(transcript, overwrite_chars) ==
    /\ out' = transcript \o overwrite_chars \o <<"\r">>
    /\ num_chars_printed' = Len(transcript)
    /\ UNCHANGED rpc

\* `else:` branch: print the line; on the exit keyword print the notice and
\* break (the counter is not reset on that path), otherwise reset the counter
RenderFinal(transcript, overwrite_chars) ==
    IF KeywordMatch(transcript)
    THEN /\ out' = transcript \o overwrite_chars \o <<"\n">> \o ExitNotice
         /\ rpc' = "done"
         /\ UNCHANGED num_chars_printed
    ELSE /\ out' = transcript \o overwrite_chars \o <<"\n">>
         /\ num_chars_printed' = 0
         /\ UNCHANGED rpc

\* one iteration of `for response in responses:`; out holds the characters
\* the iteration wrote to the console
RenderResponse(r) ==
    /\ rpc = "loop"
    /\ lastResp' = r
    /\ IF r.kind # "result"
       THEN RenderSkip
       ELSE LET transcript == r.transcript
                overwrite_chars == OverwriteChars(num_chars_printed, transcript)
            IN IF ~r.is_final
               THEN RenderInterim(transcript, overwrite_chars)
               ELSE RenderFinal(transcript, overwrite_chars)
    /\ LET term == TermWrite(Term, out') IN
        /\ line' = term.line
        /\ col' = term.col
    /\ UNCHANGED audioVars

\* the response iterator is exhausted: the for loop ends
RenderExhausted ==
    /\ rpc = "loop"
    /\ rpc' = "done"
    /\ lastResp' = [kind |-> "end", transcript |-> <<>>, is_final |-> FALSE]
    /\ out' = <<>>
    /\ UNCHANGED <<num_chars_printed, line, col>>
    /\ UNCHANGED audioVars

\* --------------------------------------------------------- specifications
Next ==
    \/ FillBuffer
    \/ EnterOpen
    \/ EnterSetOpen
    \/ MainRecognize
    \/ \E o \in Outcomes : BodyEnd(o)
    \/ ExitStopStream
    \/ ExitClose
    \/ ExitSetClosed
    \/ ExitPutMarker
    \/ ExitTerminate
    \/ MainDone
    \/ GenStart
    \/ GenGuard
    \/ GenGet
    \/ GenDrain
    \/ GenResume

\* one session of main()
Spec == Init /\ [][Next]_vars

\* the session under the scheduling the threads have: the consumer thread
\* and the main thread inside __exit__ keep running
FairSpec ==
    /\ Spec
    /\ WF_vars(GenNext)
    /\ WF_vars(ExitNext)

NextReexit == Next \/ Reexit

\* a session followed by a second invocation of __exit__
SpecReexit == Init /\ [][NextReexit]_vars

NextDirect == Next \/ GenCreateDirect

\* a session in which the generator may also be obtained while the capture
\* is not open
SpecDirect == Init /\ [][NextDirect]_vars

RenderNext ==
    \/ \E r \in Responses : RenderResponse(r)
    \/ RenderExhausted

\* listen_print_loop run on an arbitrary response sequence
RenderSpec == Init /\ [][RenderNext]_vars

\* ================================================================ claims
\* the end marker has been put on the buffer
MarkerPut == \E i \in 1..Len(puts) : puts[i].none

\* C1: when the generator has ended and the end marker was enqueued, the
\* emitted blocks, concatenated in emission order, equal the concatenation of
\* all enqueued chunks in enqueue order (nothing lost, reordered, duplicated).
C1_EmittedEqualsEnqueued ==
    (genpc = "done" /\ MarkerPut) => Join(emitted) = JoinItems(Enqueued)

\* C2: when the generator reads the end marker in the non-blocking drain, the
\* partial batch collected so far is emitted as one final block.
C2_PartialBatchEmitted ==
    endedBy = "drain_marker" =>
        /\ emitted # <<>>
        /\ emitted[Len(emitted)] = Join(data)

\* C3: once the generator has read the end marker it emits no further block
\* and takes nothing more from the buffer.
C3_NothingAfterMarker ==
    [][markerRead => (emitted' = emitted /\ Len(buff') >= Len(buff)
                      /\ genpc = "done" /\ genpc' = "done")]_vars

C3_Witness ==
    /\ markerRead
    /\ endedBy = "drain_marker"
    /\ emitted # <<>>
    /\ mainpc = "done"

\* C4: teardown order: the marker is on the buffer only after the device
\* stream was stopped and closed, and the audio interface is released only
\* after the marker was enqueued.
C4_TeardownOrder ==
    /\ MarkerPut => (stream = "closed" /\ devCalls.stop >= 1 /\ devCalls.close >= 1)
    /\ devCalls.close >= 1 => devCalls.stop >= 1
    /\ (iface = "terminated" \/ devCalls.terminate >= 1) => MarkerPut

C4_Witness ==
    /\ iface = "terminated"
    /\ MarkerPut
    /\ stream = "closed"

\* C5: no chunk is enqueued after the end marker: the marker, when present,
\* is the last item put and the last item of the FIFO, the callback cannot run
\* once it is there, and when the consumer reads it nothing is left behind it.
C5_MarkerIsLast ==
    /\ \A i \in 1..Len(puts) : puts[i].none => i = Len(puts)
    /\ \A i \in 1..Len(buff) : buff[i].none => i = Len(buff)
    /\ MarkerPut => stream # "active"
    /\ markerRead => buff = <<>>

C5_Witness ==
    /\ Len(buff) >= 3
    /\ buff[Len(buff)].none
    /\ Len(Enqueued) = MaxChunks

\* C6: whenever teardown has begun while the generator is running (also while
\* it is blocked in the get of an empty buffer), the generator eventually ends.
C6_GeneratorTerminates ==
    (exitpc >= 1 /\ genpc \in {"guard", "get", "drain", "yield"}) ~> (genpc = "done")

C6_Witness ==
    /\ genpc = "done"
    /\ endedBy = "get_marker"
    /\ puts = <<None>>
    /\ emitted = <<>>

\* C7: however the body of the session ends after a successful open, main()
\* ends only after teardown ran (stream stopped and closed, closed flag set,
\* marker enqueued), and an error is still the session's result.
C7_TeardownOnEveryExit ==
    (mainpc = "done" /\ stream # "none") =>
        /\ outcome \in Outcomes
        /\ stream = "closed"
        /\ devCalls.stop = 1
        /\ devCalls.close = 1
        /\ closed
        /\ MarkerPut
        /\ outcome = "error" => result = "error"

C7_Witness ==
    /\ mainpc = "done"
    /\ outcome = "error"
    /\ result = "error"
    /\ stream = "closed"
    /\ MarkerPut

\* C8: a second invocation of teardown on the closed capture raises nothing,
\* invokes no device operation a second time and leaves the closed flag and
\* the buffer contents as the first teardown left them.
C8_TeardownIdempotent ==
    (teardowns = 2 /\ exitpc = ExitDone) =>
        /\ ~exitRaised
        /\ devCalls = [open |-> 1, stop |-> 1, close |-> 1, terminate |-> 1]
        /\ closed
        /\ Cardinality({i \in 1..Len(puts) : puts[i].none}) = 1

\* C9: the callback never blocks: while the stream is open its put can always
\* complete, and a callback step only appends the received block to the buffer
\* and returns the continue signal.
C9_CallbackNeverBlocks ==
    /\ [](stream = "active" => ~PutBlocks(buff))
    /\ [][Len(Enqueued') > Len(Enqueued) =>
            /\ buff' = Append(buff, puts'[Len(puts')])
            /\ cbReturn' = "paContinue"
            /\ UNCHANGED <<closed, stream, iface, mainpc, exitpc, outcome,
                           result, genCreated, genpc, data, emitted,
                           markerRead, endedBy, devCalls, teardowns,
                           exitRaised>>]_vars

C9_Witness ==
    /\ stream = "active"
    /\ Len(buff) >= 3
    /\ cbReturn = "paContinue"
    /\ genpc = "get"

\* C10: an interim result with transcript t processed when the counter is n
\* is written as t, then exactly max(0, n - len(t)) blanks, then a carriage
\* return and no newline, and the counter becomes len(t).
C10_InterimWrite ==
    [][(lastResp'.kind = "result" /\ ~lastResp'.is_final) =>
          LET t == lastResp'.transcript
              n == num_chars_printed
              pad == IF n - Len(t) > 0 THEN n - Len(t) ELSE 0
          IN /\ Len(out') = Len(t) + pad + 1
             /\ SubSeq(out', 1, Len(t)) = t
             /\ \A i \in Len(t) + 1 .. Len(t) + pad : out'[i] = " "
             /\ out'[Len(out')] = "\r"
             /\ \A i \in 1..Len(out') : out'[i] # "\n"
             /\ num_chars_printed' = Len(t)
             /\ rpc' = "loop"]_vars

\* an interim of length 2 written over a line of length 5: 3 blanks of padding
C10_Witness ==
    /\ lastResp.kind = "result"
    /\ ~lastResp.is_final
    /\ Len(lastResp.transcript) = 2
    /\ out = lastResp.transcript \o <<" ", " ", " ", "\r">>
    /\ num_chars_printed = 2

\* the step processed a final result whose transcript matches the keyword
StoppedOnKeyword(resp) ==
    resp.kind = "result" /\ resp.is_final /\ KeywordMatch(resp.transcript)

\* C11: the render loop stops before the responses are exhausted exactly when
\* it has processed a final result whose transcript matches the exit keyword;
\* on it the transcript is printed, then the "Exiting.." notice, and no later
\* response is processed; non-keyword finals and all interims keep the loop
\* running.
C11_StopsOnlyOnFinalKeyword ==
    /\ [][/\ (rpc' = "done" /\ lastResp'.kind # "end") <=> StoppedOnKeyword(lastResp')
          /\ StoppedOnKeyword(lastResp') =>
                LET t == lastResp'.transcript IN
                /\ Len(out') >= Len(t) + 1 + Len(ExitNotice)
                /\ SubSeq(out', 1, Len(t)) = t
                /\ SubSeq(out', Len(out') - Len(ExitNotice) + 1, Len(out')) = ExitNotice
                /\ out'[Len(out') - Len(ExitNotice)] = "\n"
          /\ (lastResp'.kind \in {"result", "no_results", "no_alternatives"}
              /\ ~StoppedOnKeyword(lastResp')) => rpc' = "loop"]_vars
    /\ [][rpc # "done"]_vars

C11_Witness ==
    /\ rpc = "done"
    /\ lastResp.kind = "result"
    /\ lastResp.is_final
    /\ lastResp.transcript = <<" ", "SHUU", "RYOU">>
    /\ num_chars_printed = 2

\* C12: after any final result has been processed, also one that matches the
\* exit keyword, the transcript was written with a trailing newline and the
\* counter num_chars_printed is 0.
C12_FinalResetsCounter ==
    (lastResp.kind = "result" /\ lastResp.is_final) =>
        /\ num_chars_printed = 0
        /\ Len(out) > Len(lastResp.transcript)
        /\ \E i \in Len(lastResp.transcript) + 1 .. Len(out) : out[i] = "\n"

\* C13: a response without results, or whose first result has no
\* alternatives, is a no-op: nothing is written, the counter and the console
\* are unchanged and the loop goes on.
C13_MalformedIsNoOp ==
    [][lastResp'.kind \in {"no_results", "no_alternatives"} =>
          /\ out' = <<>>
          /\ num_chars_printed' = num_chars_printed
          /\ line' = line
          /\ col' = col
          /\ rpc' = "loop"]_vars

C13_Witness ==
    /\ lastResp.kind = "no_alternatives"
    /\ num_chars_printed = 3
    /\ Len(line) = 3
    /\ out = <<>>
    /\ rpc = "loop"

\* C14: when opening the input device fails, the session ends with the error
\* and without a retry: the open was attempted exactly once, the closed flag
\* is still true, no chunk and no marker was ever enqueued, and neither the
\* recognition call (generator, request stream) nor the renderer was started.
C14_OpenFailureIsFatal ==
    (devCalls.open >= 1 /\ stream = "none") =>
        /\ mainpc = "done"
        /\ result = "error"
        /\ devCalls = [open |-> 1, stop |-> 0, close |-> 0, terminate |-> 0]
        /\ closed
        /\ puts = <<>>
        /\ buff = <<>>
        /\ ~genCreated
        /\ genpc = "idle"
        /\ outcome = "none"
        /\ teardowns = 0
        /\ rpc = "loop" /\ out = <<>>

C14_Witness ==
    /\ devCalls.open = 1
    /\ stream = "none"
    /\ mainpc = "done"
    /\ result = "error"

RECURSIVE Flatten(_)
\* the bytes of a sequence of blocks, in order
Flatten(blocks) == IF blocks = <<>> THEN <<>> ELSE Head(blocks) \o Flatten(Tail(blocks))

IsPrefix(a, b) == Len(a) <= Len(b) /\ SubSeq(b, 1, Len(a)) = a

\* C15: in every reachable state the concatenation of the blocks emitted so
\* far is a prefix of the concatenation of the chunks enqueued so far.
C15_EmittedIsPrefix ==
    IsPrefix(Flatten(emitted), JoinItems(Enqueued))

\* an execution that stopped early: one block of two chunks was emitted, a
\* third chunk was enqueued and the generator has ended
C15_Witness ==
    /\ Len(emitted) = 1
    /\ Len(emitted[1]) = 2
    /\ Len(Enqueued) = 3
    /\ genpc = "done"

\* C16: the generator ends only by reading the end marker, and never while a
\* chunk enqueued before the marker is still unread in the buffer.
C16_EndsOnlyByMarker ==
    genpc = "done" =>
        /\ markerRead
        /\ \A i \in 1..Len(buff) : buff[i].none

\* chunk items still in the buffer, as bytes
BuffBytes == JoinItems(SelectSeq(buff, IsChunk))

\* C17: every emitted block is the concatenation of at least one chunk: the
\* chunk of the blocking read followed, in FIFO order, by every chunk the
\* non-blocking reads obtained up to the first one that found the buffer
\* empty; a block is emitted only when a non-blocking read found the buffer
\* empty, and the number of chunks in a block is not capped.
C17_BlockIsDrainedBatch ==
    /\ [](genpc = "drain" =>
            /\ Len(data) >= 1
            /\ Flatten(emitted) \o Join(data) \o BuffBytes = JoinItems(Enqueued))
    /\ [](genpc \in {"guard", "get", "yield"} =>
            Flatten(emitted) \o BuffBytes = JoinItems(Enqueued))
    /\ [](\A i \in 1..Len(emitted) : Len(emitted[i]) >= 1)
    /\ [][emitted' # emitted =>
            /\ genpc = "drain"
            /\ buff = <<>>
            /\ buff' = <<>>
            /\ emitted' = Append(emitted, Join(data))]_vars

\* one block that holds every chunk of the session
C17_Witness ==
    /\ Len(emitted) = 1
    /\ Len(emitted[1]) = MaxChunks
    /\ genpc = "yield"

\* C18: the closed flag goes from open to closed only in teardown, after the
\* device stream was stopped and closed and before the marker is enqueued; it
\* is opened only by __enter__ and never after a teardown, so it flips to
\* closed exactly once in a session.
C18_ClosedFlipsOnce ==
    /\ [][(~closed /\ closed') =>
            /\ ExitAt("set_closed")
            /\ teardowns = 1
            /\ stream = "closed"
            /\ devCalls.stop = 1 /\ devCalls.close = 1
            /\ ~MarkerPut]_vars
    /\ [][(closed /\ ~closed') => (mainpc = "entered" /\ teardowns = 0)]_vars
    /\ [](MarkerPut => closed)
    /\ [](teardowns <= 1)
    /\ []((teardowns = 1 /\ exitpc = ExitDone) => closed)

C18_Witness ==
    /\ closed
    /\ teardowns = 1
    /\ MarkerPut
    /\ mainpc = "done"
    /\ devCalls.open = 1 /\ stream = "closed"

\* C19: a generator whose loop guard runs while the capture is not open
\* (before __enter__ opened it, or after teardown) ends at once: it emits no
\* block and takes nothing from the buffer, whatever the buffer contains; an
\* ended generator never resumes.
C19_NotRestartable ==
    /\ [][(genpc = "guard" /\ closed /\ genpc' # "guard") =>
            /\ genpc' = "done"
            /\ emitted' = emitted
            /\ buff' = buff
            /\ data' = data]_vars
    /\ [][genpc = "done" =>
            /\ genpc' = "done"
            /\ emitted' = emitted
            /\ Len(buff') >= Len(buff)]_vars

\* a generator obtained before __enter__ finished has ended although the
\* buffer holds a chunk
C19_Witness ==
    /\ genpc = "done"
    /\ endedBy = "flag"
    /\ mainpc = "entered"
    /\ buff # <<>>
    /\ emitted = <<>>

\* the terminal line l shows the transcript t followed only by blanks
ShowsOnly(l, t) ==
    /\ Len(l) >= Len(t)
    /\ SubSeq(l, 1, Len(t)) = t
    /\ \A i \in Len(t) + 1 .. Len(l) : l[i] = " "

\* C20: with the console as one line overwritten from column 0 after each
\* carriage return: after every write of an interim result the current line
\* shows exactly that transcript followed only by blanks, and the line
\* completed by a final result shows exactly the final transcript followed
\* only by blanks; nothing of an earlier, longer write stays visible.
C20_LineShowsLatest ==
    [][lastResp'.kind = "result" =>
          LET t == lastResp'.transcript
              w == TermWrite(Term, out')
          IN IF lastResp'.is_final
             THEN /\ Len(w.lines) >= 1
                  /\ ShowsOnly(w.lines[1], t)
                  /\ line' = <<>>
                  /\ col' = 0
             ELSE /\ w.lines = <<>>
                  /\ ShowsOnly(line', t)
                  /\ col' = 0]_vars

\* a one-character interim on a line that held five characters, two of them
\* already blanks of an earlier padding
C20_Witness ==
    /\ lastResp.kind = "result"
    /\ ~lastResp.is_final
    /\ Len(lastResp.transcript) = 1
    /\ Len(out) = 4
    /\ Len(line) = 5
    /\ line[1] # " "

====
